---- MODULE Spec2Model ----
(***************************************************************************)
(* The Monkey front end: lexer (src/lexer/lexer.go), Pratt parser          *)
(* (src/parser/parser.go) and the AST's String() rendering                 *)
(* (package ast, src/object/object.go lines 180-394).                      *)
(*                                                                         *)
(* Text is a sequence of one-character strings; the NUL byte the lexer     *)
(* uses past the end of its input is the empty string.  A Go string value  *)
(* (a literal, an operator) is such a sequence too.                        *)
(***************************************************************************)
EXTENDS Integers, Sequences, FiniteSets, TLC

VARIABLES
    parser,     \* the *Parser: l (the lexer), errors, currToken, peekToken
    program,    \* ParseProgram's local program.Statements
    pc,         \* "loop": inside ParseProgram's for loop; "done": it returned;
                \* "skip": inside the skipping loop of src/unnamed/part_000
    statement   \* the statement a skipping loop of src/unnamed/part_000 is in

vars == <<parser, program, pc, statement>>

-----------------------------------------------------------------------------
(* Bounds of the checked inputs *)

MaxLen == 2        \* inputs of up to MaxLen lexemes over the whole alphabet
MaxCoreLen == 3    \* inputs of up to MaxCoreLen lexemes over CoreLexemes
MaxList == 3       \* list templates of up to MaxList elements
MaxFailures == 3   \* inputs of up to MaxFailures failing statements
MaxVariantLen == 3 \* inputs of up to MaxVariantLen lexemes for src/unnamed/part_000
MaxSpin == 5       \* bytes past the end of input a skipping loop is followed for

-----------------------------------------------------------------------------
(* Characters *)

NUL == ""

LowerCase ==
    {"a", "b", "c", "d", "e", "f", "g", "h", "i", "j", "k", "l", "m",
     "n", "o", "p", "q", "r", "s", "t", "u", "v", "w", "x", "y", "z"}

UpperCase ==
    {"A", "B", "C", "D", "E", "F", "G", "H", "I", "J", "K", "L", "M",
     "N", "O", "P", "Q", "R", "S", "T", "U", "V", "W", "X", "Y", "Z"}

isLetter(char) == char \in LowerCase \/ char \in UpperCase \/ char = "_"

isDigit(char) == char \in {"0", "1", "2", "3", "4", "5", "6", "7", "8", "9"}

isWhitespace(char) == char \in {" ", "\t", "\n", "\r"}

-----------------------------------------------------------------------------
(* Tokens.  Package token is not part of the sources; a token type is      *)
(* written by the name of its constant (token.ASSIGN is "ASSIGN").         *)

Token(type, literal) == [Type |-> type, Literal |-> literal]

newToken(tokenType, char) == Token(tokenType, <<char>>)

\* token.LookupIdent: the keyword table
LookupIdent(ident) ==
    CASE ident = <<"f", "n">> -> "FUNCTION"
      [] ident = <<"l", "e", "t">> -> "LET"
      [] ident = <<"t", "r", "u", "e">> -> "TRUE"
      [] ident = <<"f", "a", "l", "s", "e">> -> "FALSE"
      [] ident = <<"i", "f">> -> "IF"
      [] ident = <<"e", "l", "s", "e">> -> "ELSE"
      [] ident = <<"r", "e", "t", "u", "r", "n">> -> "RETURN"
      [] OTHER -> "IDENT"

-----------------------------------------------------------------------------
(* Lexer.  Positions are the Go (0-based) byte offsets.                    *)

\* lexer.input[i]
ByteAt(input, i) == input[i + 1]

\* lexer.input[from:to]
Slice(input, from, to) == SubSeq(input, from + 1, to)

readChar(lexer) ==
    [lexer EXCEPT
        !.char = IF lexer.readPosition >= Len(lexer.input)
                 THEN NUL
                 ELSE ByteAt(lexer.input, lexer.readPosition),
        !.position = lexer.readPosition,
        !.readPosition = lexer.readPosition + 1]

LexerNew(input) ==
    readChar([input |-> input, position |-> 0, readPosition |-> 0, char |-> NUL])

peekChar(lexer) ==
    IF lexer.readPosition >= Len(lexer.input)
    THEN NUL
    ELSE ByteAt(lexer.input, lexer.readPosition)

RECURSIVE skipWhitespace(_)
skipWhitespace(lexer) ==
    IF isWhitespace(lexer.char) THEN skipWhitespace(readChar(lexer)) ELSE lexer

RECURSIVE SkipLetters(_)
SkipLetters(lexer) ==
    IF isLetter(lexer.char) THEN SkipLetters(readChar(lexer)) ELSE lexer

RECURSIVE SkipDigits(_)
SkipDigits(lexer) ==
    IF isDigit(lexer.char) THEN SkipDigits(readChar(lexer)) ELSE lexer

RECURSIVE SkipString(_)
SkipString(lexer) ==
    LET next == readChar(lexer)
    IN  IF next.char = "\"" \/ next.char = NUL THEN next ELSE SkipString(next)

\* each read* yields the lexer after the loop and the slice it returns
readIdentifier(lexer) ==
    LET after == SkipLetters(lexer)
    IN  [l |-> after, text |-> Slice(lexer.input, lexer.position, after.position)]

readNumber(lexer) ==
    LET after == SkipDigits(lexer)
    IN  [l |-> after, text |-> Slice(lexer.input, lexer.position, after.position)]

readString(lexer) ==
    LET after == SkipString(lexer)
    IN  [l |-> after, text |-> Slice(lexer.input, lexer.position + 1, after.position)]

SingleCharType(char) ==
    CASE char = ";" -> "SEMICOLON"
      [] char = ":" -> "COLON"
      [] char = "(" -> "LPAREN"
      [] char = ")" -> "RPAREN"
      [] char = "," -> "COMMA"
      [] char = "+" -> "PLUS"
      [] char = "-" -> "MINUS"
      [] char = "/" -> "SLASH"
      [] char = "*" -> "ASTERISK"
      [] char = "<" -> "LT"
      [] char = ">" -> "GT"
      [] char = "{" -> "LBRACE"
      [] char = "}" -> "RBRACE"
      [] char = "[" -> "LBRACKET"
      [] char = "]" -> "RBRACKET"
      [] OTHER -> "ILLEGAL"

\* NextToken yields the lexer it leaves behind and the token it returns
NextToken(lexer0) ==
    LET lexer == skipWhitespace(lexer0)
        char == lexer.char
        Out(l, tok) == [l |-> l, tok |-> tok]
    IN  CASE char = "=" ->
               IF peekChar(lexer) = "="
               THEN LET l2 == readChar(lexer)
                    IN  Out(readChar(l2), Token("EQ", <<char, l2.char>>))
               ELSE Out(readChar(lexer), newToken("ASSIGN", char))
          [] char = "!" ->
               IF peekChar(lexer) = "="
               THEN LET l2 == readChar(lexer)
                    IN  Out(readChar(l2), Token("NOT_EQ", <<char, l2.char>>))
               ELSE Out(readChar(lexer), newToken("BANG", char))
          [] char = "\"" ->
               LET s == readString(lexer)
               IN  Out(readChar(s.l), Token("STRING", s.text))
          [] char = NUL -> Out(readChar(lexer), Token("EOF", <<>>))
          [] OTHER ->
               IF isLetter(char)
               THEN LET id == readIdentifier(lexer)
                    IN  Out(id.l, Token(LookupIdent(id.text), id.text))
               ELSE IF isDigit(char)
               THEN LET n == readNumber(lexer)
                    IN  Out(n.l, Token("INT", n.text))
               ELSE Out(readChar(lexer), newToken(SingleCharType(char), char))

-----------------------------------------------------------------------------
(* AST nodes (package ast).  Nil is Go's nil: a nil interface, pointer,    *)
(* slice.  A slice that can be nil is List(elems) when it is not.          *)

Nil == [kind |-> "nil"]

\* the ast.Statement interface holding a nil *ast.LetStatement: not == nil
NilLetStatement == [kind |-> "(*ast.LetStatement)(nil)"]

List(elems) == [kind |-> "list", elems |-> elems]

Identifier(tok) == [kind |-> "Identifier", Token |-> tok, Value |-> tok.Literal]

IntegerLiteral(tok, value) == [kind |-> "IntegerLiteral", Token |-> tok, Value |-> value]

Boolean(tok, value) == [kind |-> "Boolean", Token |-> tok, Value |-> value]

StringLiteral(tok) == [kind |-> "StringLiteral", Token |-> tok, Value |-> tok.Literal]

PrefixExpression(tok, right) ==
    [kind |-> "PrefixExpression", Token |-> tok, Operator |-> tok.Literal, Right |-> right]

InfixExpression(tok, left, right) ==
    [kind |-> "InfixExpression", Token |-> tok, Left |-> left,
     Operator |-> tok.Literal, Right |-> right]

IfExpression(tok, condition, consequence, alternative) ==
    [kind |-> "IfExpression", Token |-> tok, Condition |-> condition,
     Consequence |-> consequence, Alternative |-> alternative]

FunctionLiteral(tok, parameters, body) ==
    [kind |-> "FunctionLiteral", Token |-> tok, Parameters |-> parameters, Body |-> body]

CallExpression(tok, function, arguments) ==
    [kind |-> "CallExpression", Token |-> tok, Function |-> function,
     Arguments |-> arguments]

ArrayLiteral(tok, elements) ==
    [kind |-> "ArrayLiteral", Token |-> tok, Elements |-> elements]

IndexExpression(tok, left, index) ==
    [kind |-> "IndexExpression", Token |-> tok, Left |-> left, Index |-> index]

\* Pairs: the map's entries, in the order their keys were first inserted
HashLiteral(tok, pairs) == [kind |-> "HashLiteral", Token |-> tok, Pairs |-> pairs]

BlockStatement(tok, statements) ==
    [kind |-> "BlockStatement", Token |-> tok, Statements |-> statements]

LetStatement(tok, name, value) ==
    [kind |-> "LetStatement", Token |-> tok, Name |-> name, Value |-> value]

ReturnStatement(tok, returnValue) ==
    [kind |-> "ReturnStatement", Token |-> tok, ReturnValue |-> returnValue]

ExpressionStatement(tok, expression) ==
    [kind |-> "ExpressionStatement", Token |-> tok, Expression |-> expression]

-----------------------------------------------------------------------------
(* Parser: precedence table and cursor *)

LOWEST == 1
EQUALS == 2
LESSGREATER == 3
SUM == 4
PRODUCT == 5
PREFIX == 6
CALL == 7
INDEX == 8

PrecedenceKeys ==
    {"EQ", "NOT_EQ", "LT", "GT", "PLUS", "MINUS", "SLASH", "ASTERISK",
     "LPAREN", "LBRACKET"}

precedences(tokenType) ==
    CASE tokenType \in {"EQ", "NOT_EQ"} -> EQUALS
      [] tokenType \in {"LT", "GT"} -> LESSGREATER
      [] tokenType \in {"PLUS", "MINUS"} -> SUM
      [] tokenType \in {"SLASH", "ASTERISK"} -> PRODUCT
      [] tokenType = "LPAREN" -> CALL
      [] tokenType = "LBRACKET" -> INDEX

\* the keys New registers a prefix function for
prefixParseFns ==
    {"IDENT", "INT", "BANG", "MINUS", "TRUE", "FALSE", "LPAREN", "IF",
     "FUNCTION", "STRING", "LBRACKET", "LBRACE"}

\* the keys New registers an infix function for
infixParseFns ==
    {"PLUS", "MINUS", "SLASH", "ASTERISK", "EQ", "NOT_EQ", "LT", "GT",
     "LPAREN", "LBRACKET"}

PeekErrorMessage(expected, got) ==
    <<"expected next token to be ", expected, ", got ", got, " instead">>

NoPrefixMessage(tokenType) ==
    <<"no prefix parse function for ", tokenType, " found">>

IntegerMessage(literal) == <<"could not parse ", literal, " as integer">>

\* mutant: the diagnostic is not recorded
peekErrorDropped(p, tokenType) == p

peekError(p, tokenType) ==
    [p EXCEPT !.errors = Append(p.errors, PeekErrorMessage(tokenType, p.peekToken.Type))]

\* mutant: a message that is already in the list is not recorded again
noPrefixParseFnErrorOnce(p, tokenType) ==
    IF \E i \in 1..Len(p.errors) : p.errors[i] = NoPrefixMessage(tokenType)
    THEN p
    ELSE [p EXCEPT !.errors = Append(p.errors, NoPrefixMessage(tokenType))]

noPrefixParseFnError(p, tokenType) ==
    [p EXCEPT !.errors = Append(p.errors, NoPrefixMessage(tokenType))]

currPrecedence(p) ==
    IF p.currToken.Type \in PrecedenceKeys THEN precedences(p.currToken.Type) ELSE LOWEST

peekPrecedence(p) ==
    IF p.peekToken.Type \in PrecedenceKeys THEN precedences(p.peekToken.Type) ELSE LOWEST

nextToken(p) ==
    LET n == NextToken(p.l)
    IN  [p EXCEPT !.currToken = p.peekToken, !.peekToken = n.tok, !.l = n.l]

currTokenIs(p, tokenType) == p.currToken.Type = tokenType

peekTokenIs(p, tokenType) == p.peekToken.Type = tokenType

\* mutant: the cursor advances on failure too
expectPeekSkipping(p, tokenType) ==
    IF peekTokenIs(p, tokenType)
    THEN [p |-> nextToken(p), ok |-> TRUE]
    ELSE [p |-> nextToken(peekError(p, tokenType)), ok |-> FALSE]

\* expectPeek yields the parser it leaves behind and the bool it returns
expectPeek(p, tokenType) ==
    IF peekTokenIs(p, tokenType)
    THEN [p |-> nextToken(p), ok |-> TRUE]
    ELSE [p |-> peekError(p, tokenType), ok |-> FALSE]

\* parser.New: the zero Token has an empty Type and Literal
New(l) ==
    LET zero == Token("", <<>>)
    IN  nextToken(nextToken([l |-> l, errors |-> <<>>, currToken |-> zero,
                             peekToken |-> zero]))

-----------------------------------------------------------------------------
(* strconv.ParseInt(s, 0, 64) on a string of decimal digits (all the lexer *)
(* produces for an INT token).  Base 0 reads a leading "0" that is not the *)
(* whole string as the octal prefix.                                       *)

DigitValue(char) ==
    CASE char = "0" -> 0 [] char = "1" -> 1 [] char = "2" -> 2 [] char = "3" -> 3
      [] char = "4" -> 4 [] char = "5" -> 5 [] char = "6" -> 6 [] char = "7" -> 7
      [] char = "8" -> 8 [] char = "9" -> 9

RECURSIVE DigitsValue(_, _)
DigitsValue(digits, base) ==
    IF digits = <<>>
    THEN 0
    ELSE DigitsValue(SubSeq(digits, 1, Len(digits) - 1), base) * base
            + DigitValue(digits[Len(digits)])

RECURSIVE StripZeros(_)
StripZeros(digits) ==
    IF digits # <<>> /\ Head(digits) = "0" THEN StripZeros(Tail(digits)) ELSE digits

\* the decimal digits of 1<<63 - 1
MaxInt64Digits ==
    <<"9", "2", "2", "3", "3", "7", "2", "0", "3", "6", "8", "5", "4", "7", "7",
      "5", "8", "0", "7">>

RECURSIVE DigitsGreater(_, _)
DigitsGreater(a, b) ==   \* a > b, for digit strings of one length
    /\ a # <<>>
    /\ \/ DigitValue(Head(a)) > DigitValue(Head(b))
       \/ Head(a) = Head(b) /\ DigitsGreater(Tail(a), Tail(b))

\* 1<<63 - 1 is 21 octal sevens
MaxInt64OctalLen == 21

ParseInt(s) ==
    LET octal == Len(s) > 1 /\ Head(s) = "0"
        digits == StripZeros(s)
        syntax == s = <<>> \/ (octal /\ \E i \in 1..Len(s) : DigitValue(s[i]) > 7)
        range == IF octal
                 THEN Len(digits) > MaxInt64OctalLen
                 ELSE \/ Len(digits) > Len(MaxInt64Digits)
                      \/ /\ Len(digits) = Len(MaxInt64Digits)
                         /\ DigitsGreater(digits, MaxInt64Digits)
    IN  IF syntax \/ range
        THEN [ok |-> FALSE, value |-> 0]
        ELSE [ok |-> TRUE, value |-> DigitsValue(digits, IF octal THEN 8 ELSE 10)]

-----------------------------------------------------------------------------
(* Parse functions.  Each yields R(p, node): the parser it leaves behind   *)
(* and the node (or Nil) it returns.                                       *)

R(p, node) == [p |-> p, node |-> node]

parseIdentifier(p) == R(p, Identifier(p.currToken))

parseIntegerLiteral(p) ==
    LET conv == ParseInt(p.currToken.Literal)
    IN  IF ~conv.ok
        THEN R([p EXCEPT !.errors = Append(p.errors, IntegerMessage(p.currToken.Literal))],
               Nil)
        ELSE R(p, IntegerLiteral(p.currToken, conv.value))

parseBoolean(p) == R(p, Boolean(p.currToken, currTokenIs(p, "TRUE")))

parseStringLiteral(p) == R(p, StringLiteral(p.currToken))

\* hash.Pairs[key] = value: the keys are node pointers, so only a nil key
\* can meet an entry that is already there
MapPut(pairs, key, value) ==
    IF key = Nil /\ \E i \in 1..Len(pairs) : pairs[i].key = Nil
    THEN [i \in 1..Len(pairs) |->
            IF pairs[i].key = Nil THEN [key |-> Nil, value |-> value] ELSE pairs[i]]
    ELSE Append(pairs, [key |-> key, value |-> value])

(* A call from one parse function to parseExpression, parseStatement or   *)
(* parseBlockStatement (the calls that make the parser recursive) is       *)
(* written Call("f", p, arg); arg is Nil for a function of no arguments.   *)
RECURSIVE Call(_, _, _)

RECURSIVE SkipSemicolons(_), ParametersLoop(_, _), ExpressionListLoop(_, _),
          HashLoop(_, _), HashLoopNoComma(_, _), ExpressionLoop(_, _), BlockLoop(_, _),
          BlockLoopStrict(_, _)

\* for parser.peekTokenIs(token.SEMICOLON) { parser.nextToken() }
SkipSemicolons(p) ==
    IF peekTokenIs(p, "SEMICOLON") THEN SkipSemicolons(Call("nextToken", p, Nil)) ELSE p

\* mutant: the operand is parsed at LOWEST, not PREFIX
parsePrefixExpressionLowest(p) ==
    LET right == Call("parseExpression", Call("nextToken", p, Nil), LOWEST)
    IN  R(right.p, PrefixExpression(p.currToken, right.node))

parsePrefixExpression(p) ==
    LET right == Call("parseExpression", Call("nextToken", p, Nil), PREFIX)
    IN  R(right.p, PrefixExpression(p.currToken, right.node))

\* mutant: the right operand is parsed at LOWEST, not at the operator's level
parseInfixExpressionLowest(p, left) ==
    LET right == Call("parseExpression", Call("nextToken", p, Nil), LOWEST)
    IN  R(right.p, InfixExpression(p.currToken, left, right.node))

parseInfixExpression(p, left) ==
    LET right == Call("parseExpression", Call("nextToken", p, Nil), currPrecedence(p))
    IN  R(right.p, InfixExpression(p.currToken, left, right.node))

\* mutant: the inside is parsed at PREFIX, not LOWEST
parseGroupedExpressionTight(p) ==
    LET expression == Call("parseExpression", Call("nextToken", p, Nil), PREFIX)
        e == Call("expectPeek", expression.p, "RPAREN")
    IN  IF ~e.ok THEN R(e.p, Nil) ELSE R(e.p, expression.node)

parseGroupedExpression(p) ==
    LET expression == Call("parseExpression", Call("nextToken", p, Nil), LOWEST)
        e == Call("expectPeek", expression.p, "RPAREN")
    IN  IF ~e.ok THEN R(e.p, Nil) ELSE R(e.p, expression.node)

parseIfExpression(p) ==
    LET e1 == Call("expectPeek", p, "LPAREN")
        condition == Call("parseExpression", Call("nextToken", e1.p, Nil), LOWEST)
        e2 == Call("expectPeek", condition.p, "RPAREN")
        e3 == Call("expectPeek", e2.p, "LBRACE")
        consequence == Call("parseBlockStatement", e3.p, Nil)
        e4 == Call("expectPeek", Call("nextToken", consequence.p, Nil), "LBRACE")
        alternative == Call("parseBlockStatement", e4.p, Nil)
    IN  IF ~e1.ok THEN R(e1.p, Nil)
        ELSE IF ~e2.ok THEN R(e2.p, Nil)
        ELSE IF ~e3.ok THEN R(e3.p, Nil)
        ELSE IF ~peekTokenIs(consequence.p, "ELSE")
        THEN R(consequence.p,
               IfExpression(p.currToken, condition.node, consequence.node, Nil))
        ELSE IF ~e4.ok THEN R(e4.p, Nil)
        ELSE R(alternative.p,
               IfExpression(p.currToken, condition.node, consequence.node,
                            alternative.node))

\* the for loop of parseFunctionParameters; r.node is identifiers
ParametersLoop(p, identifiers) ==
    IF peekTokenIs(p, "COMMA")
    THEN LET p2 == Call("nextToken", Call("nextToken", p, Nil), Nil)
         IN  ParametersLoop(p2, Append(identifiers, Identifier(p2.currToken)))
    ELSE R(p, identifiers)

parseFunctionParameters(p) ==
    IF peekTokenIs(p, "RPAREN")
    THEN R(Call("nextToken", p, Nil), List(<<>>))
    ELSE LET p1 == Call("nextToken", p, Nil)
             loop == ParametersLoop(p1, <<Identifier(p1.currToken)>>)
             e == Call("expectPeek", loop.p, "RPAREN")
         IN  IF ~e.ok THEN R(e.p, Nil) ELSE R(e.p, List(loop.node))

parseFunctionLiteral(p) ==
    LET e1 == Call("expectPeek", p, "LPAREN")
        parameters == parseFunctionParameters(e1.p)
        e2 == Call("expectPeek", parameters.p, "LBRACE")
        body == Call("parseBlockStatement", e2.p, Nil)
    IN  IF ~e1.ok THEN R(e1.p, Nil)
        ELSE IF ~e2.ok THEN R(e2.p, Nil)
        ELSE R(body.p, FunctionLiteral(p.currToken, parameters.node, body.node))

\* the for loop of parseExpressionList; r.node is list
ExpressionListLoop(p, list) ==
    IF peekTokenIs(p, "COMMA")
    THEN LET p2 == Call("nextToken", Call("nextToken", p, Nil), Nil)
             e == Call("parseExpression", p2, LOWEST)
         IN  ExpressionListLoop(e.p, Append(list, e.node))
    ELSE R(p, list)

\* mutant: the list parsed so far is returned when the terminator is missing
parseExpressionListKept(p, end) ==
    IF peekTokenIs(p, end)
    THEN R(Call("nextToken", p, Nil), List(<<>>))
    ELSE LET first == Call("parseExpression", Call("nextToken", p, Nil), LOWEST)
             loop == ExpressionListLoop(first.p, <<first.node>>)
             e == Call("expectPeek", loop.p, end)
         IN  R(e.p, List(loop.node))

parseExpressionList(p, end) ==
    IF peekTokenIs(p, end)
    THEN R(Call("nextToken", p, Nil), List(<<>>))
    ELSE LET first == Call("parseExpression", Call("nextToken", p, Nil), LOWEST)
             loop == ExpressionListLoop(first.p, <<first.node>>)
             e == Call("expectPeek", loop.p, end)
         IN  IF ~e.ok THEN R(e.p, Nil) ELSE R(e.p, List(loop.node))

parseCallExpression(p, function) ==
    LET arguments == parseExpressionList(p, "RPAREN")
    IN  R(arguments.p, CallExpression(p.currToken, function, arguments.node))

parseArrayLiteral(p) ==
    LET elements == parseExpressionList(p, "RBRACKET")
    IN  R(elements.p, ArrayLiteral(p.currToken, elements.node))

\* mutant: the index is parsed at INDEX, not LOWEST
parseIndexExpressionTight(p, array) ==
    LET index == Call("parseExpression", Call("nextToken", p, Nil), INDEX)
        e == Call("expectPeek", index.p, "RBRACKET")
    IN  IF ~e.ok
        THEN R(e.p, Nil)
        ELSE R(e.p, IndexExpression(p.currToken, array, index.node))

parseIndexExpression(p, array) ==
    LET index == Call("parseExpression", Call("nextToken", p, Nil), LOWEST)
        e == Call("expectPeek", index.p, "RBRACKET")
    IN  IF ~e.ok
        THEN R(e.p, Nil)
        ELSE R(e.p, IndexExpression(p.currToken, array, index.node))

\* mutant: no comma is required after a pair
HashLoopNoComma(p, pairs) ==
    IF ~peekTokenIs(p, "RBRACE")
    THEN LET key == Call("parseExpression", Call("nextToken", p, Nil), LOWEST)
             e1 == Call("expectPeek", key.p, "COLON")
             value == Call("parseExpression", Call("nextToken", e1.p, Nil), LOWEST)
             put == MapPut(pairs, key.node, value.node)
             e2 == Call("expectPeek", value.p, "COMMA")
         IN  IF ~e1.ok THEN R(e1.p, Nil)
             ELSE IF peekTokenIs(value.p, "RBRACE") THEN HashLoop(value.p, put)
             ELSE HashLoop(value.p, put)
    ELSE R(p, List(pairs))

\* the for loop of parseHashLiteral; yields R(p, List(hash.Pairs)), or
\* R(p, Nil) when the loop body returns nil
HashLoop(p, pairs) ==
    IF ~peekTokenIs(p, "RBRACE")
    THEN LET key == Call("parseExpression", Call("nextToken", p, Nil), LOWEST)
             e1 == Call("expectPeek", key.p, "COLON")
             value == Call("parseExpression", Call("nextToken", e1.p, Nil), LOWEST)
             put == MapPut(pairs, key.node, value.node)
             e2 == Call("expectPeek", value.p, "COMMA")
         IN  IF ~e1.ok THEN R(e1.p, Nil)
             ELSE IF peekTokenIs(value.p, "RBRACE") THEN HashLoop(value.p, put)
             ELSE IF ~e2.ok THEN R(e2.p, Nil)
             ELSE HashLoop(e2.p, put)
    ELSE R(p, List(pairs))

parseHashLiteral(p) ==
    LET loop == HashLoop(p, <<>>)
        e == Call("expectPeek", loop.p, "RBRACE")
    IN  IF loop.node = Nil THEN loop
        ELSE IF ~e.ok THEN R(e.p, Nil)
        ELSE R(e.p, HashLiteral(p.currToken, loop.node.elems))

\* parser.prefixParseFns[parser.currToken.Type]()
prefixFn(p) ==
    CASE p.currToken.Type = "IDENT" -> parseIdentifier(p)
      [] p.currToken.Type = "INT" -> parseIntegerLiteral(p)
      [] p.currToken.Type \in {"BANG", "MINUS"} -> parsePrefixExpression(p)
      [] p.currToken.Type \in {"TRUE", "FALSE"} -> parseBoolean(p)
      [] p.currToken.Type = "LPAREN" -> parseGroupedExpression(p)
      [] p.currToken.Type = "IF" -> parseIfExpression(p)
      [] p.currToken.Type = "FUNCTION" -> parseFunctionLiteral(p)
      [] p.currToken.Type = "STRING" -> parseStringLiteral(p)
      [] p.currToken.Type = "LBRACKET" -> parseArrayLiteral(p)
      [] p.currToken.Type = "LBRACE" -> parseHashLiteral(p)

\* parser.infixParseFns[type](left), called with the operator as currToken
infixFn(p, left) ==
    CASE p.currToken.Type = "LPAREN" -> parseCallExpression(p, left)
      [] p.currToken.Type = "LBRACKET" -> parseIndexExpression(p, left)
      [] OTHER -> parseInfixExpression(p, left)

\* the for loop of parseExpression; r.node is leftExp
ExpressionLoop(r, precedence) ==
    IF ~peekTokenIs(r.p, "SEMICOLON") /\ precedence < peekPrecedence(r.p)
    THEN IF r.p.peekToken.Type \notin infixParseFns
         THEN r
         ELSE ExpressionLoop(infixFn(Call("nextToken", r.p, Nil), r.node), precedence)
    ELSE r

parseExpression(p, precedence) ==
    IF p.currToken.Type \notin prefixParseFns
    THEN R(noPrefixParseFnError(p, p.currToken.Type), Nil)
    ELSE ExpressionLoop(prefixFn(p), precedence)

parseLetStatement(p) ==
    LET e1 == Call("expectPeek", p, "IDENT")
        e2 == Call("expectPeek", e1.p, "ASSIGN")
        v == Call("parseExpression", Call("nextToken", e2.p, Nil), LOWEST)
    IN  IF ~e1.ok THEN R(e1.p, Nil)
        ELSE IF ~e2.ok THEN R(e2.p, Nil)
        ELSE R(SkipSemicolons(v.p),
               LetStatement(p.currToken, Identifier(e1.p.currToken), v.node))

parseReturnStatement(p) ==
    LET v == Call("parseExpression", Call("nextToken", p, Nil), LOWEST)
    IN  R(SkipSemicolons(v.p), ReturnStatement(p.currToken, v.node))

parseExpressionStatement(p) ==
    LET e == Call("parseExpression", p, LOWEST)
    IN  R(IF peekTokenIs(e.p, "SEMICOLON") THEN Call("nextToken", e.p, Nil) ELSE e.p,
          ExpressionStatement(p.currToken, e.node))

\* the *ast.LetStatement becomes an ast.Statement: a nil pointer becomes an
\* interface value that is not nil
parseStatement(p) ==
    CASE p.currToken.Type = "LET" ->
           LET r == parseLetStatement(p)
           IN  R(r.p, IF r.node = Nil THEN NilLetStatement ELSE r.node)
      [] p.currToken.Type = "RETURN" -> parseReturnStatement(p)
      [] OTHER -> parseExpressionStatement(p)

\* mutant: a block that ends at the end of input records a diagnostic
BlockLoopStrict(r, tok) ==
    IF ~currTokenIs(r.p, "RBRACE") /\ ~currTokenIs(r.p, "EOF")
    THEN LET s == Call("parseStatement", r.p, Nil)
         IN  BlockLoopStrict(R(Call("nextToken", s.p, Nil),
                               IF s.node # Nil THEN Append(r.node, s.node) ELSE r.node),
                             tok)
    ELSE IF currTokenIs(r.p, "EOF")
    THEN R(peekError(r.p, "RBRACE"), BlockStatement(tok, r.node))
    ELSE R(r.p, BlockStatement(tok, r.node))

\* the for loop of parseBlockStatement; r.node is block.Statements so far
BlockLoop(r, tok) ==
    IF ~currTokenIs(r.p, "RBRACE") /\ ~currTokenIs(r.p, "EOF")
    THEN LET s == Call("parseStatement", r.p, Nil)
         IN  BlockLoop(R(Call("nextToken", s.p, Nil),
                         IF s.node # Nil THEN Append(r.node, s.node) ELSE r.node),
                       tok)
    ELSE R(r.p, BlockStatement(tok, r.node))

parseBlockStatement(p) == BlockLoop(R(Call("nextToken", p, Nil), <<>>), p.currToken)

Call(fn, p, arg) ==
    CASE fn = "parseExpression" -> parseExpression(p, arg)
      [] fn = "parseStatement" -> parseStatement(p)
      [] fn = "parseBlockStatement" -> parseBlockStatement(p)
      [] fn = "nextToken" -> nextToken(p)
      [] fn = "expectPeek" -> expectPeek(p, arg)

\* mutant: the loop does not advance after the statement
ParseProgramIterationNoAdvance(r) ==
    LET s == Call("parseStatement", r.p, Nil)
    IN  R(s.p, IF s.node # Nil THEN Append(r.node, s.node) ELSE r.node)

\* one iteration of ParseProgram's for loop; r.node is program.Statements
ParseProgramIteration(r) ==
    LET s == Call("parseStatement", r.p, Nil)
    IN  R(nextToken(s.p), IF s.node # Nil THEN Append(r.node, s.node) ELSE r.node)

\* bytes.Buffer: the strings written, one after the other
RECURSIVE Concat(_)
Concat(seqs) == IF seqs = <<>> THEN <<>> ELSE Head(seqs) \o Concat(Tail(seqs))

\* parser.New(lexer.New(input)).ParseProgram(): r.p is the parser it leaves
\* behind and r.node is program.Statements
RECURSIVE ParseProgramFrom(_)
ParseProgramFrom(r) ==
    IF currTokenIs(r.p, "EOF") THEN r ELSE ParseProgramFrom(ParseProgramIteration(r))

ParseProgram(input) == ParseProgramFrom(R(New(LexerNew(input)), <<>>))

-----------------------------------------------------------------------------
(* String(): the rendering of the nodes that have one in the sources.  A   *)
(* call on a nil node panics, which no operator here stands for: String    *)
(* is applied to trees without absent slots only.                          *)

HasStringKinds ==
    {"LetStatement", "ReturnStatement", "ExpressionStatement", "BlockStatement",
     "Identifier", "IntegerLiteral", "Boolean", "PrefixExpression",
     "InfixExpression", "IfExpression"}

RECURSIVE String(_)
String(node) ==
    LET Opt(n) == IF n # Nil THEN String(n) ELSE <<>>
        All(nodes) == Concat([i \in 1..Len(nodes) |-> String(nodes[i])])
    IN  CASE node.kind = "LetStatement" ->
               node.Token.Literal \o <<" ">> \o String(node.Name) \o <<" ", "=", " ">>
                   \o Opt(node.Value) \o <<";">>
          [] node.kind = "ReturnStatement" ->
               node.Token.Literal \o <<" ">> \o Opt(node.ReturnValue) \o <<";">>
          [] node.kind = "ExpressionStatement" -> Opt(node.Expression)
          [] node.kind = "BlockStatement" -> All(node.Statements)
          [] node.kind = "Identifier" -> node.Value
          [] node.kind \in {"IntegerLiteral", "Boolean"} -> node.Token.Literal
          [] node.kind = "PrefixExpression" ->
               <<"(">> \o node.Operator \o String(node.Right) \o <<")">>
          [] node.kind = "InfixExpression" ->
               <<"(">> \o String(node.Left) \o <<" ">> \o node.Operator \o <<" ">>
                   \o String(node.Right) \o <<")">>
          [] node.kind = "IfExpression" ->
               <<"i", "f">> \o String(node.Condition) \o <<" ">>
                   \o String(node.Consequence)
                   \o IF node.Alternative # Nil
                      THEN <<"e", "l", "s", "e", " ">> \o String(node.Alternative)
                      ELSE <<>>

\* Program.String
ProgramString(statements) ==
    Concat([i \in 1..Len(statements) |-> String(statements[i])])

-----------------------------------------------------------------------------
(* Inputs: source texts, written as sequences of lexemes that are joined   *)
(* by single spaces.                                                       *)

RECURSIVE Join(_)
Join(lexemes) ==
    IF lexemes = <<>> THEN <<>>
    ELSE IF Len(lexemes) = 1 THEN Head(lexemes)
    ELSE Head(lexemes) \o <<" ">> \o Join(Tail(lexemes))

KwLet == <<"l", "e", "t">>
KwReturn == <<"r", "e", "t", "u", "r", "n">>
KwFn == <<"f", "n">>
KwIf == <<"i", "f">>
KwElse == <<"e", "l", "s", "e">>
KwTrue == <<"t", "r", "u", "e">>
KwFalse == <<"f", "a", "l", "s", "e">>

BinaryOperators ==
    {<<"+">>, <<"-">>, <<"*">>, <<"/">>, <<"=", "=">>, <<"!", "=">>, <<"<">>, <<">">>}

PrefixOperators == {<<"!">>, <<"-">>}

Operands == {<<"a">>, <<"b">>, <<"5">>}

Lexemes ==
    {<<"a">>, <<"b">>, <<"5">>, <<"0", "8">>, <<"\"", "s", "\"">>,
     KwLet, KwReturn, KwFn, KwIf, KwElse, KwTrue, KwFalse,
     <<"=">>, <<"!">>, <<"(">>, <<")">>, <<"{">>, <<"}">>, <<"[">>,
     <<"]">>, <<",">>, <<":">>, <<";">>, <<"@">>}
        \cup BinaryOperators

CoreLexemes ==
    {<<"a">>, <<"5">>, KwLet, <<"=">>, <<"+">>, <<"*">>, <<"(">>,
     <<")">>, <<";">>, <<",">>}

SeqsUpTo(S, n) == UNION {[1..k -> S] : k \in 0..n}

\* every sequence of up to MaxLen lexemes, and of up to MaxCoreLen core ones
ExhaustiveInputs ==
    SeqsUpTo(Lexemes, MaxLen) \cup SeqsUpTo(CoreLexemes, MaxCoreLen)

\* a op1 b op2 c
BinaryChain(a, op1, b, op2, c) == <<a, op1, b, op2, c>>

BinaryChainInputs ==
    {BinaryChain(a, op1, b, op2, c) :
        a \in Operands, op1 \in BinaryOperators, b \in Operands,
        op2 \in BinaryOperators, c \in Operands}

\* -a op b, !a op b
PrefixThenInfix(pre, a, op, b) == <<pre, a, op, b>>

PrefixInputs ==
    {PrefixThenInfix(pre, a, op, b) :
        pre \in PrefixOperators, a \in Operands, op \in BinaryOperators,
        b \in Operands}

\* (a op1 b) op2 c; a op1 (b op2 c); pre (a op b); and ( a op b without its )
GroupLeft(a, op1, b, op2, c) == <<<<"(">>, a, op1, b, <<")">>, op2, c>>

GroupRight(a, op1, b, op2, c) == <<a, op1, <<"(">>, b, op2, c, <<")">>>>

GroupUnderPrefix(pre, a, op, b) == <<pre, <<"(">>, a, op, b, <<")">>>>

GroupUnclosed(a, op, b, tail) == <<<<"(">>, a, op, b>> \o tail

UnclosedTails == {<<>>, << <<";">> >>}

GroupInputs ==
    {GroupLeft(<<"a">>, op1, <<"b">>, op2, <<"5">>) :
        op1 \in BinaryOperators, op2 \in BinaryOperators}
    \cup {GroupRight(<<"a">>, op1, <<"b">>, op2, <<"5">>) :
        op1 \in BinaryOperators, op2 \in BinaryOperators}
    \cup {GroupUnderPrefix(pre, <<"a">>, op, <<"b">>) :
        pre \in PrefixOperators, op \in BinaryOperators}
    \cup {GroupUnclosed(<<"a">>, op, <<"b">>, tail) :
        op \in BinaryOperators, tail \in UnclosedTails}

\* digit strings: plain, with leading zeros, and past 1<<63 - 1
IntegerLexemes ==
    {<<"0">>, <<"5">>, <<"0", "0">>, <<"0", "7">>, <<"0", "8">>, <<"0", "1", "0">>,
     <<"0", "0", "9">>, <<"1", "0", "0">>,
     <<"2", "1", "4", "7", "4", "8", "3", "6", "4", "7">>,
     [MaxInt64Digits EXCEPT ![Len(MaxInt64Digits)] = "8"],
     MaxInt64Digits \o <<"0">>, <<"0">> \o MaxInt64Digits \o <<"0">>}

IntegerInputs == {<<digits>> : digits \in IntegerLexemes}

InputLexemes ==
    ExhaustiveInputs \cup BinaryChainInputs \cup PrefixInputs \cup GroupInputs
        \cup IntegerInputs

\* a lexeme by its spelling
Lex(word) ==
    CASE word = "let" -> KwLet
      [] word = "return" -> KwReturn
      [] word = "fn" -> KwFn
      [] word = "if" -> KwIf
      [] word = "else" -> KwElse
      [] word = "true" -> KwTrue
      [] word = "false" -> KwFalse
      [] word = "==" -> <<"=", "=">>
      [] word = "!=" -> <<"!", "=">>
      [] word = "\"k\"" -> <<"\"", "k", "\"">>
      [] OTHER -> <<word>>

Text(words) == Join([i \in 1..Len(words) |-> Lex(words[i])])

\* a well-formed text of every construct
Samples ==
    {<<"if", "(", "a", ")", "{", "b", "}">>,
     <<"if", "(", "a", "<", "b", ")", "{", "a", "}", "else", "{", "b", "}">>,
     <<"fn", "(", "a", ",", "b", ")", "{", "a", "+", "b", ";", "}">>,
     <<"a", "(", "5", ",", "b", ")">>,
     <<"[", "a", ",", "5", "]", "[", "5", "]">>,
     <<"{", "a", ":", "5", ",", "b", ":", "a", "}">>,
     <<"let", "a", "=", "5", ";", "return", "b", ";">>,
     <<"!", "true", "==", "false", ";", "-", "a", "*", "b">>}

DeleteAt(words, i) == SubSeq(words, 1, i - 1) \o SubSeq(words, i + 1, Len(words))

\* the samples, and each sample with one of its lexemes left out
SampleInputs ==
    Samples \cup UNION {{DeleteAt(words, i) : i \in 1..Len(words)} : words \in Samples}

\* let x v ; with no = after the identifier
LetWithoutAssign(x, v) == <<"let", x, v, ";">>

LetWithoutAssignInputs ==
    {LetWithoutAssign(x, v) : x \in {"a", "b"}, v \in {"a", "b", "5"}}

\* statements that each fail on their own, with the diagnostic of each
FailingStatements ==
    {[words |-> <<")">>, message |-> NoPrefixMessage("RPAREN")],
     [words |-> <<"let", "5", ";">>, message |-> PeekErrorMessage("IDENT", "INT")],
     [words |-> <<"(", "a", ";">>,
      message |-> PeekErrorMessage("RPAREN", "SEMICOLON")]}

\* every run of up to MaxFailures failing statements
FailureRuns == SeqsUpTo(FailingStatements, MaxFailures)

FailureWords(run) == Concat([i \in 1..Len(run) |-> run[i].words])

FailureInputs == {FailureWords(run) : run \in FailureRuns}

\* the words of a list, with a comma before each one but the first
CommaSeparated(list) ==
    Concat([i \in 1..Len(list) |-> IF i = 1 THEN list[i] ELSE <<",">> \o list[i]])

\* list elements, as words
ListElements == {<<"1">>, <<"2", "*", "3">>, <<"4", "+", "5">>}

Lists == SeqsUpTo(ListElements, MaxList)

\* a ( e1 , ... , ek ) and [ e1 , ... , ek ], the closing bracket being tail
CallOf(list, tail) == <<"a", "(">> \o CommaSeparated(list) \o tail

ArrayOf(list, tail) == <<"[">> \o CommaSeparated(list) \o tail

\* what stands where the closing bracket is missing: nothing, ; or the
\* other list's bracket
MissingTails(end) == {<<>>, <<";">>, IF end = ")" THEN <<"]">> ELSE <<")">>}

ListInputs ==
    {CallOf(list, <<")">>) : list \in Lists}
    \cup {ArrayOf(list, <<"]">>) : list \in Lists}
    \cup {CallOf(list, tail) : list \in Lists \ {<<>>}, tail \in MissingTails(")")}
    \cup {ArrayOf(list, tail) : list \in Lists \ {<<>>}, tail \in MissingTails("]")}

\* fn ( p1 , ... , pn ) { } for parameters that are identifiers or not
ParameterWords == {"x", "y", "1"}

FunctionOf(parameters) ==
    <<"fn", "(">> \o CommaSeparated([i \in 1..Len(parameters) |-> <<parameters[i]>>])
        \o <<")", "{", "}">>

ParameterLists == SeqsUpTo(ParameterWords, MaxList) \cup {<<",">>}

FunctionInputs == {FunctionOf(parameters) : parameters \in ParameterLists}

\* hash entries, as the words of the key and of the value
HashEntries ==
    {[key |-> <<"\"k\"">>, value |-> <<"1">>],
     [key |-> <<"a">>, value |-> <<"2", "*", "3">>],
     [key |-> <<"4", "+", "5">>, value |-> <<"b">>]}

HashRuns == SeqsUpTo(HashEntries, MaxList)

\* { k1 : v1 , ... , kn : vn followed by tail
HashOf(run, tail) ==
    <<"{">> \o CommaSeparated([i \in 1..Len(run) |->
                                 run[i].key \o <<":">> \o run[i].value])
        \o tail

\* the same with no : after the last key
HashWithoutColon(run) ==
    <<"{">> \o CommaSeparated([i \in 1..Len(run) |->
                                 run[i].key \o (IF i = Len(run) THEN <<>> ELSE <<":">>)
                                     \o run[i].value])
        \o <<"}">>

\* what follows a pair that is neither , nor }
HashTails == {<<>>, <<";">>, <<")">>, <<"a", ":", "1", "}">>}

HashInputs ==
    {HashOf(run, <<"}">>) : run \in HashRuns}
    \cup {HashOf(run, tail) : run \in HashRuns \ {<<>>}, tail \in HashTails}
    \cup {HashWithoutColon(run) : run \in HashRuns \ {<<>>}}

\* x [ e followed by tail; a op b [ c ]; pre a [ c ]
IndexOf(index, tail) == <<"a", "[">> \o index \o tail

IndexAfterInfix(op) == <<"a", op, "b", "[", "c", "]">>

IndexAfterPrefix(pre) == <<pre, "a", "[", "c", "]">>

IndexWords == {<<"c">>, <<"1", "+", "1">>, <<"2", "*", "3">>}

InfixWords == {"+", "-", "*", "/", "==", "!=", "<", ">"}

PrefixWords == {"!", "-"}

IndexInputs ==
    {IndexOf(index, tail) : index \in IndexWords,
                            tail \in {<<"]">>} \cup MissingTails("]")}
    \cup {IndexAfterInfix(op) : op \in InfixWords}
    \cup {IndexAfterPrefix(pre) : pre \in PrefixWords}

\* a let with no = after its identifier, and a well-formed statement after
\* its terminator
FailedLetThenStatement(x, v) == LetWithoutAssign(x, v) \o <<"b", ";">>

ResumeInputs ==
    {FailedLetThenStatement(x, v) : x \in {"a", "b"}, v \in {"a", "b", "5"}}

\* the statements of a block, as words
BlockStatements ==
    {<<"b">>, <<"a", ";">>, <<"let", "b", "=", "5", ";">>, <<"return", "a", ";">>}

BlockRuns == SeqsUpTo(BlockStatements, MaxList)

\* if ( a ) { statements, and fn ( a ) { statements, followed by tail
IfBlock(run, tail) == <<"if", "(", "a", ")", "{">> \o Concat(run) \o tail

FunctionBlock(run, tail) == <<"fn", "(", "a", ")", "{">> \o Concat(run) \o tail

\* the block is closed, or the input ends
BlockTails == {<<"}">>, <<>>}

BlockInputs ==
    {IfBlock(run, tail) : run \in BlockRuns, tail \in BlockTails}
    \cup {FunctionBlock(run, tail) : run \in BlockRuns, tail \in BlockTails}

WordInputs ==
    BlockInputs \cup ResumeInputs \cup IndexInputs \cup HashInputs \cup SampleInputs \cup LetWithoutAssignInputs \cup FailureInputs \cup ListInputs
        \cup FunctionInputs

Inputs == {Join(ls) : ls \in InputLexemes} \cup {Text(words) : words \in WordInputs}

-----------------------------------------------------------------------------
(* ParseProgram, one loop iteration per step *)

Init ==
    /\ \E input \in Inputs : parser = New(LexerNew(input))
    /\ program = <<>>
    /\ pc = "loop"
    /\ statement = Nil

ParseProgramLoop ==
    /\ pc = "loop"
    /\ ~currTokenIs(parser, "EOF")
    /\ LET r == ParseProgramIteration(R(parser, program))
       IN  /\ parser' = r.p
           /\ program' = r.node
    /\ UNCHANGED <<pc, statement>>

ParseProgramReturn ==
    /\ pc = "loop"
    /\ currTokenIs(parser, "EOF")
    /\ pc' = "done"
    /\ UNCHANGED <<parser, program, statement>>

Next == ParseProgramLoop \/ ParseProgramReturn

Spec == Init /\ [][Next]_vars

-----------------------------------------------------------------------------
(* The earlier parser of src/unnamed/part_000.  Its parseLetStatement and   *)
(* parseReturnStatement skip tokens up to a semicolon instead of parsing    *)
(* the expression; one iteration of that loop is one step.  Over            *)
(* VariantWords its expression parsing is the code of parser.go: the prefix *)
(* functions of IDENT, INT, MINUS and TRUE, the infix functions and         *)
(* precedences of + and -, parseExpression and parseExpressionStatement are *)
(* the same text in both files.                                             *)

VariantWords == {"a", "5", "let", "return", "=", "+", "-", ";", "true"}

VariantInputs == {Text(words) : words \in SeqsUpTo(VariantWords, MaxVariantLen)}

VariantInit ==
    /\ \E input \in VariantInputs : parser = New(LexerNew(input))
    /\ program = <<>>
    /\ pc = "loop"
    /\ statement = Nil

\* ParseProgram's loop body on a LET token, up to the skipping loop or, when
\* an expectPeek fails, to the end of the iteration (the nil *ast.LetStatement
\* is appended as in parser.go)
VariantParseLetStatement ==
    /\ pc = "loop"
    /\ currTokenIs(parser, "LET")
    /\ LET e1 == expectPeek(parser, "IDENT")
           e2 == expectPeek(e1.p, "ASSIGN")
           failed == IF ~e1.ok THEN e1.p ELSE e2.p
       IN  IF e1.ok /\ e2.ok
           THEN /\ parser' = e2.p
                /\ statement' = LetStatement(parser.currToken,
                                              Identifier(e1.p.currToken), Nil)
                /\ pc' = "skip"
                /\ UNCHANGED program
           ELSE /\ parser' = nextToken(failed)
                /\ program' = Append(program, NilLetStatement)
                /\ UNCHANGED <<pc, statement>>

\* ParseProgram's loop body on a RETURN token, up to the skipping loop
VariantParseReturnStatement ==
    /\ pc = "loop"
    /\ currTokenIs(parser, "RETURN")
    /\ parser' = nextToken(parser)
    /\ statement' = ReturnStatement(parser.currToken, Nil)
    /\ pc' = "skip"
    /\ UNCHANGED program

\* ParseProgram's loop body on any other token
VariantParseExpressionStatement ==
    /\ pc = "loop"
    /\ ~currTokenIs(parser, "EOF")
    /\ ~currTokenIs(parser, "LET")
    /\ ~currTokenIs(parser, "RETURN")
    /\ LET r == parseExpressionStatement(parser)
       IN  /\ parser' = nextToken(r.p)
           /\ program' = Append(program, r.node)
    /\ UNCHANGED <<pc, statement>>

\* for !parser.currTokenIs(token.SEMICOLON) { parser.nextToken() }
VariantSkip ==
    /\ pc = "skip"
    /\ ~currTokenIs(parser, "SEMICOLON")
    /\ parser.l.readPosition < Len(parser.l.input) + MaxSpin
    /\ parser' = nextToken(parser)
    /\ UNCHANGED <<program, pc, statement>>

\* the skipping loop ends; the statement is returned and appended, and
\* ParseProgram advances
VariantSkipExit ==
    /\ pc = "skip"
    /\ currTokenIs(parser, "SEMICOLON")
    /\ parser' = nextToken(parser)
    /\ program' = Append(program, statement)
    /\ pc' = "loop"
    /\ statement' = Nil

VariantParseProgramReturn ==
    /\ pc = "loop"
    /\ currTokenIs(parser, "EOF")
    /\ pc' = "done"
    /\ UNCHANGED <<parser, program, statement>>

VariantNext ==
    \/ VariantParseLetStatement
    \/ VariantParseReturnStatement
    \/ VariantParseExpressionStatement
    \/ VariantSkip
    \/ VariantSkipExit
    \/ VariantParseProgramReturn

VariantSpec == VariantInit /\ [][VariantNext]_vars

-----------------------------------------------------------------------------
(* What the claims speak of *)

Done == pc = "done"

Input == parser.l.input

Errors == parser.errors

\* the number of bytes the lexer has moved past: every NextToken raises it
Cursor(p) == p.l.readPosition

\* the tokens of the lexemes the templates are written with
OperandNode(lexeme) ==
    IF isDigit(lexeme[1])
    THEN IntegerLiteral(Token("INT", lexeme), DigitsValue(lexeme, 10))
    ELSE Identifier(Token("IDENT", lexeme))

OperatorType(lexeme) ==
    CASE lexeme = <<"=", "=">> -> "EQ"
      [] lexeme = <<"!", "=">> -> "NOT_EQ"
      [] lexeme = <<"!">> -> "BANG"
      [] OTHER -> SingleCharType(lexeme[1])

OperatorToken(lexeme) == Token(OperatorType(lexeme), lexeme)

Infix(left, op, right) == InfixExpression(OperatorToken(op), left, right)

Prefix(op, right) == PrefixExpression(OperatorToken(op), right)

\* the program of one expression statement: its token is the first lexeme's
OneExpression(tok, expression) == <<ExpressionStatement(tok, expression)>>

-----------------------------------------------------------------------------
(* C1: ParseProgram terminates on every input, well formed or not: every   *)
(* iteration of its statement loop moves the cursor forward, and the loop  *)
(* goes on only while the cursor is within two bytes of the input's end,   *)
(* so it is left after at most Len(Input) + 2 iterations.  (That the inner *)
(* loops end is what lets every step of the model be computed.)            *)
C1_Terminates ==
    /\ [][pc' = "loop" => Cursor(parser') > Cursor(parser)]_vars
    /\ [](pc = "loop" /\ ~currTokenIs(parser, "EOF") =>
            Cursor(parser) <= Len(Input) + 2)

\* ParseProgram has returned from a malformed input that made it record
\* diagnostics and still append statements
C1_Witness == Done /\ Len(Errors) >= 2 /\ Len(program) >= 2

\* the inputs of C2 with the programs the claim gives them
C2_Cases ==
    {[text |-> Join(BinaryChain(a, op1, b, op2, c)),
      program |->
        OneExpression(OperandNode(a).Token,
            IF precedences(OperatorType(op2)) > precedences(OperatorType(op1))
            THEN Infix(OperandNode(a), op1, Infix(OperandNode(b), op2, OperandNode(c)))
            ELSE Infix(Infix(OperandNode(a), op1, OperandNode(b)), op2,
                       OperandNode(c)))] :
        a \in Operands, op1 \in BinaryOperators, b \in Operands,
        op2 \in BinaryOperators, c \in Operands}

\* the inputs C2 speaks of
C2_Texts == {case.text : case \in C2_Cases}

(* C2: "a op1 b op2 c" is Infix(op1, a, Infix(op2, b, c)) when op2 binds   *)
(* tighter than op1, and Infix(op2, Infix(op1, a, b), c) otherwise.        *)
C2_BinaryChain ==
    Done /\ Input \in C2_Texts => \A case \in C2_Cases :
                Input = case.text => Errors = <<>> /\ program = case.program

\* "a + b * 5" and "a - b - 5" have been parsed
C2_Witness ==
    /\ Done
    /\ \/ /\ Input = Join(<<<<"a">>, <<"+">>, <<"b">>, <<"*">>, <<"5">>>>)
          /\ program[1].Expression.Right.kind = "InfixExpression"
       \/ /\ Input = Join(<<<<"a">>, <<"-">>, <<"b">>, <<"-">>, <<"5">>>>)
          /\ program[1].Expression.Left.kind = "InfixExpression"

\* the inputs of C3 with the programs the claim gives them
C3_Cases ==
    {[text |-> Join(PrefixThenInfix(pre, a, op, b)),
      program |->
        OneExpression(OperatorToken(pre),
                      Infix(Prefix(pre, OperandNode(a)), op, OperandNode(b)))] :
        pre \in PrefixOperators, a \in Operands, op \in BinaryOperators,
        b \in Operands}

(* C3: "-a op b" and "!a op b" are Infix(op, Prefix(a), b) for every       *)
(* binary operator op.                                                     *)
C3_PrefixBindsTighter ==
    Done => \A case \in C3_Cases :
                Input = case.text => Errors = <<>> /\ program = case.program

\* "- a * b" has been parsed
C3_Witness ==
    /\ Done
    /\ Input = Join(<<<<"-">>, <<"a">>, <<"*">>, <<"b">>>>)
    /\ program[1].Expression.kind = "InfixExpression"

\* the inputs of C4 with the programs and diagnostics the claim gives them
C4_Cases ==
    LET a == OperandNode(<<"a">>)
        b == OperandNode(<<"b">>)
        c == OperandNode(<<"5">>)
        lparen == Token("LPAREN", <<"(">>)
    IN  {[text |-> Join(GroupLeft(<<"a">>, op1, <<"b">>, op2, <<"5">>)),
          errors |-> <<>>,
          program |-> OneExpression(lparen, Infix(Infix(a, op1, b), op2, c))] :
            op1 \in BinaryOperators, op2 \in BinaryOperators}
        \cup
        {[text |-> Join(GroupRight(<<"a">>, op1, <<"b">>, op2, <<"5">>)),
          errors |-> <<>>,
          program |-> OneExpression(a.Token, Infix(a, op1, Infix(b, op2, c)))] :
            op1 \in BinaryOperators, op2 \in BinaryOperators}
        \cup
        {[text |-> Join(GroupUnderPrefix(pre, <<"a">>, op, <<"b">>)),
          errors |-> <<>>,
          program |-> OneExpression(OperatorToken(pre), Prefix(pre, Infix(a, op, b)))] :
            pre \in PrefixOperators, op \in BinaryOperators}
        \cup
        {[text |-> Join(GroupUnclosed(<<"a">>, op, <<"b">>, tail)),
          errors |-> <<PeekErrorMessage("RPAREN",
                            IF tail = <<>> THEN "EOF" ELSE "SEMICOLON")>>,
          program |-> OneExpression(lparen, Nil)] :
            op \in BinaryOperators, tail \in UnclosedTails}

(* C4: parentheses override precedence, whatever the bound outside them:   *)
(* "(a op1 b) op2 c" is Infix(op2, Infix(op1, a, b), c), "a op1 (b op2 c)" *)
(* is Infix(op1, a, Infix(op2, b, c)), "-(a op b)" is Prefix(Infix);       *)
(* a missing ) records "expected RPAREN" and the group yields nil.         *)
C4_Grouping ==
    Done => \A case \in C4_Cases :
                Input = case.text =>
                    Errors = case.errors /\ program = case.program

\* "( a + b ) * 5" has been parsed, and "( a + b" has
C4_Witness ==
    /\ Done
    /\ \/ /\ Input = Join(GroupLeft(<<"a">>, <<"+">>, <<"b">>, <<"*">>, <<"5">>))
          /\ program[1].Expression.Operator = <<"*">>
       \/ /\ Input = Join(GroupUnclosed(<<"a">>, <<"+">>, <<"b">>, <<>>))
          /\ program[1].Expression = Nil

\* a node with a required slot that is absent, at any depth; the nil
\* *ast.LetStatement is an absent statement
RECURSIVE HasAbsentSlot(_)
HasAbsentSlot(node) ==
    LET Some(nodes) == \E i \in 1..Len(nodes) : HasAbsentSlot(nodes[i])
    IN  CASE node.kind \in {"nil", "(*ast.LetStatement)(nil)"} -> TRUE
          [] node.kind = "list" -> Some(node.elems)
          [] node.kind = "LetStatement" -> Some(<<node.Name, node.Value>>)
          [] node.kind = "ReturnStatement" -> HasAbsentSlot(node.ReturnValue)
          [] node.kind = "ExpressionStatement" -> HasAbsentSlot(node.Expression)
          [] node.kind = "BlockStatement" -> Some(node.Statements)
          [] node.kind = "PrefixExpression" -> HasAbsentSlot(node.Right)
          [] node.kind = "InfixExpression" -> Some(<<node.Left, node.Right>>)
          [] node.kind = "IfExpression" ->
               \/ Some(<<node.Condition, node.Consequence>>)
               \/ node.Alternative # Nil /\ HasAbsentSlot(node.Alternative)
          [] node.kind = "FunctionLiteral" -> Some(<<node.Parameters, node.Body>>)
          [] node.kind = "CallExpression" -> Some(<<node.Function, node.Arguments>>)
          [] node.kind = "ArrayLiteral" -> HasAbsentSlot(node.Elements)
          [] node.kind = "IndexExpression" -> Some(<<node.Left, node.Index>>)
          [] node.kind = "HashLiteral" ->
               \E i \in 1..Len(node.Pairs) :
                   Some(<<node.Pairs[i].key, node.Pairs[i].value>>)
          [] OTHER -> FALSE

(* C5: a parse function yields nil only with a diagnostic recorded during  *)
(* that sub-parse: a statement appended with an absent slot in it comes    *)
(* with a longer diagnostic list, and so does a nil from parseExpression,  *)
(* at every statement start and every precedence; hence a program parsed   *)
(* with no diagnostics has no absent slot but IfExpression.Alternative.    *)
C5_NilOnlyWithDiagnostic ==
    /\ [][/\ Len(program') > Len(program)
          /\ HasAbsentSlot(program'[Len(program')])
          => Len(parser'.errors) > Len(parser.errors)]_vars
    /\ [](pc = "loop" =>
            \A precedence \in LOWEST..INDEX :
                LET r == Call("parseExpression", parser, precedence)
                IN  r.node = Nil => Len(r.p.errors) > Len(parser.errors))
    /\ [](Done /\ Errors = <<>> =>
            \A i \in 1..Len(program) : ~HasAbsentSlot(program[i]))

\* parseLetStatement has yielded nil, with its one diagnostic, and the
\* statement after it has been parsed with no absent slot
C5_Witness ==
    /\ Done
    /\ Len(Errors) = 1
    /\ Len(program) = 2
    /\ program[1] = NilLetStatement
    /\ ~HasAbsentSlot(program[2])

\* the inputs of C6 with the kind of the token that follows the identifier
C6_Cases ==
    {[text |-> Text(LetWithoutAssign(x, v)),
      got |-> OperandNode(Lex(v)).Token.Type] :
        x \in {"a", "b"}, v \in {"a", "b", "5"}}

(* C6: "let x v;" with no = after x records exactly one diagnostic in all, *)
(* "expected next token to be ASSIGN, got <kind of v> instead", and no     *)
(* statement of type LetStatement is appended for it.                      *)
C6_LetWithoutAssign ==
    Done => \A case \in C6_Cases :
                Input = case.text =>
                    /\ Errors = <<PeekErrorMessage("ASSIGN", case.got)>>
                    /\ \A i \in 1..Len(program) :
                           program[i].kind \notin
                               {"LetStatement", "(*ast.LetStatement)(nil)"}

\* the inputs of C7 with the diagnostics of their statements, in order
C7_Cases ==
    {[text |-> Text(FailureWords(run)),
      errors |-> [i \in 1..Len(run) |-> run[i].message]] : run \in FailureRuns}

(* C7: the diagnostic list is append-only: every step of ParseProgram      *)
(* keeps the diagnostics recorded so far, in place and in order; and an    *)
(* input of k failing statements yields the k diagnostics of its           *)
(* statements in source order, equal messages included, so parsing goes on *)
(* after the first failure and nothing is dropped or deduplicated.         *)
C7_AppendOnly ==
    /\ [][/\ Len(parser'.errors) >= Len(parser.errors)
          /\ SubSeq(parser'.errors, 1, Len(parser.errors)) = parser.errors]_vars
    /\ [](Done => \A case \in C7_Cases :
                    Input = case.text => Errors = case.errors)

\* three failing statements have been parsed, the first two with the same
\* message
C7_Witness ==
    /\ Done
    /\ Len(Errors) = 3
    /\ Errors[1] = Errors[2]
    /\ Errors[3] # Errors[1]
    /\ Input \in {case.text : case \in C7_Cases}

\* a tree of nodes that all have a String() in the sources, with no absent
\* slot
RECURSIVE HasString(_)
HasString(node) ==
    LET All(nodes) == \A i \in 1..Len(nodes) : HasString(nodes[i])
    IN  /\ node.kind \in HasStringKinds
        /\ CASE node.kind = "LetStatement" -> All(<<node.Name, node.Value>>)
              [] node.kind = "ReturnStatement" -> HasString(node.ReturnValue)
              [] node.kind = "ExpressionStatement" -> HasString(node.Expression)
              [] node.kind = "BlockStatement" -> All(node.Statements)
              [] node.kind = "PrefixExpression" -> HasString(node.Right)
              [] node.kind = "InfixExpression" -> All(<<node.Left, node.Right>>)
              [] node.kind = "IfExpression" ->
                   /\ All(<<node.Condition, node.Consequence>>)
                   /\ node.Alternative # Nil => HasString(node.Alternative)
              [] OTHER -> TRUE

(* C8: round-trip stability: when an input has parsed with no diagnostics, *)
(* parsing the String() rendering of its program again gives a program     *)
(* with the same rendering, programs of several statements and             *)
(* if-expressions included.  (Stated for the programs whose nodes, and     *)
(* whose re-parsed nodes, have a String() in the sources.)                 *)
C8_RoundTrip ==
    Done /\ Errors = <<>> /\ (\A i \in 1..Len(program) : HasString(program[i])) =>
        LET text == ProgramString(program)
            again == ParseProgram(text).node
        IN  (\A i \in 1..Len(again) : HasString(again[i])) =>
                ProgramString(again) = text

\* the expression a list element is written for
ElementNode(words) ==
    IF Len(words) = 1
    THEN OperandNode(Lex(words[1]))
    ELSE Infix(OperandNode(Lex(words[1])), Lex(words[2]), OperandNode(Lex(words[3])))

ElementNodes(list) == [i \in 1..Len(list) |-> ElementNode(list[i])]

\* the kind of the token a missing-bracket tail starts with
TailType(tail) == IF tail = <<>> THEN "EOF" ELSE OperatorType(Lex(tail[1]))

\* the inputs of C9: the program when the list is closed, and otherwise the
\* first statement and first diagnostic
C9_Cases ==
    LET a == OperandNode(<<"a">>)
        lparen == Token("LPAREN", <<"(">>)
        lbracket == Token("LBRACKET", <<"[">>)
    IN  {[text |-> Text(CallOf(list, <<")">>)), closed |-> TRUE,
          program |-> OneExpression(a.Token,
                          CallExpression(lparen, a, List(ElementNodes(list))))] :
            list \in Lists}
        \cup
        {[text |-> Text(ArrayOf(list, <<"]">>)), closed |-> TRUE,
          program |-> OneExpression(lbracket,
                          ArrayLiteral(lbracket, List(ElementNodes(list))))] :
            list \in Lists}
        \cup
        {[text |-> Text(CallOf(list, tail)), closed |-> FALSE,
          first |-> ExpressionStatement(a.Token, CallExpression(lparen, a, Nil)),
          error |-> PeekErrorMessage("RPAREN", TailType(tail))] :
            list \in Lists \ {<<>>}, tail \in MissingTails(")")}
        \cup
        {[text |-> Text(ArrayOf(list, tail)), closed |-> FALSE,
          first |-> ExpressionStatement(lbracket, ArrayLiteral(lbracket, Nil)),
          error |-> PeekErrorMessage("RBRACKET", TailType(tail))] :
            list \in Lists \ {<<>>}, tail \in MissingTails("]")}

(* C9: parseExpressionList(end), for call arguments and array elements,    *)
(* yields the empty list when end is the next token; for k >= 1            *)
(* comma-separated expressions followed by end, those k expressions in     *)
(* source order, each parsed at LOWEST; and when end does not follow the   *)
(* last expression, the diagnostic "expected next token to be <end>" and   *)
(* nil for the list.                                                       *)
C9_ExpressionList ==
    Done => \A case \in C9_Cases :
                Input = case.text =>
                    IF case.closed
                    THEN Errors = <<>> /\ program = case.program
                    ELSE /\ Len(Errors) >= 1 /\ Errors[1] = case.error
                         /\ Len(program) >= 1 /\ program[1] = case.first

\* "a ( 1 , 2 * 3 , 4 + 5 )" has been parsed: 3 arguments, the second 2 * 3
C9_Witness ==
    /\ Done
    /\ Input = Text(<<"a", "(", "1", ",", "2", "*", "3", ",", "4", "+", "5", ")">>)
    /\ Len(program[1].Expression.Arguments.elems) = 3
    /\ program[1].Expression.Arguments.elems[2].Operator = <<"*">>

\* a function literal with a parameter whose token is not an identifier
HasOtherParameter(expression) ==
    /\ expression.kind = "FunctionLiteral"
    /\ expression.Parameters # Nil
    /\ \E i \in 1..Len(expression.Parameters.elems) :
           expression.Parameters.elems[i].Token.Type # "IDENT"

\* the inputs of C10, with whether the parameters are all identifiers
C10_Cases ==
    {[text |-> Text(FunctionOf(parameters)),
      identifiers |-> \A i \in 1..Len(parameters) : parameters[i] \in {"x", "y"},
      program |->
        OneExpression(Token("FUNCTION", KwFn),
            FunctionLiteral(Token("FUNCTION", KwFn),
                List([i \in 1..Len(parameters) |->
                        Identifier(Token("IDENT", <<parameters[i]>>))]),
                BlockStatement(Token("LBRACE", <<"{">>), <<>>)))] :
        parameters \in ParameterLists}

(* C10: a parameter list holds identifiers only: "fn(p1, ..., pn) {}" with *)
(* n >= 0 identifiers is the FunctionLiteral with exactly those names in   *)
(* order; with a token that is not an identifier in the list, a diagnostic *)
(* is recorded and no FunctionLiteral has that token as a parameter.       *)
C10_IdentifierParameters ==
    Done => \A case \in C10_Cases :
                Input = case.text =>
                    IF case.identifiers
                    THEN Errors = <<>> /\ program = case.program
                    ELSE /\ Errors # <<>>
                         /\ \A i \in 1..Len(program) :
                                program[i].kind = "ExpressionStatement" =>
                                    ~HasOtherParameter(program[i].Expression)

\* the expression a hash key or value is written for
EntryNode(words) ==
    IF words = <<"\"k\"">>
    THEN StringLiteral(Token("STRING", <<"k">>))
    ELSE ElementNode(words)

\* the kind of the token a lexeme is read as
WordType(word) ==
    IF isLetter(Lex(word)[1]) \/ isDigit(Lex(word)[1])
    THEN OperandNode(Lex(word)).Token.Type
    ELSE OperatorType(Lex(word))

\* the inputs of C11: the pairs when the literal is well formed, and
\* otherwise the first diagnostic
C11_Cases ==
    {[text |-> Text(HashOf(run, <<"}">>)), closed |-> TRUE,
      pairs |-> {[key |-> EntryNode(run[i].key), value |-> EntryNode(run[i].value)] :
                    i \in 1..Len(run)},
      count |-> Len(run)] : run \in HashRuns}
    \cup
    {[text |-> Text(HashOf(run, tail)), closed |-> FALSE,
      error |-> PeekErrorMessage("COMMA",
                    IF tail = <<>> THEN "EOF" ELSE WordType(tail[1]))] :
        run \in HashRuns \ {<<>>}, tail \in HashTails}
    \cup
    {[text |-> Text(HashWithoutColon(run)), closed |-> FALSE,
      error |-> PeekErrorMessage("COLON", WordType(run[Len(run)].value[1]))] :
        run \in HashRuns \ {<<>>}}

(* C11: "{ k1 : v1 , ... , kn : vn }" with n >= 0 is the HashLiteral with  *)
(* exactly n pairs, each key and value the expression written there, and   *)
(* no diagnostic; a key with no : after it, or a pair followed by a token  *)
(* other than , or }, records "expected next token to be COLON" (or COMMA) *)
(* and the literal yields nil.                                             *)
C11_HashLiteral ==
    Done => \A case \in C11_Cases :
                Input = case.text =>
                    /\ Len(program) >= 1
                    /\ program[1].Token = Token("LBRACE", <<"{">>)
                    /\ IF case.closed
                       THEN /\ Errors = <<>>
                            /\ Len(program) = 1
                            /\ program[1].Expression.kind = "HashLiteral"
                            /\ Len(program[1].Expression.Pairs) = case.count
                            /\ {program[1].Expression.Pairs[i] :
                                    i \in 1..case.count} = case.pairs
                       ELSE /\ Len(Errors) >= 1 /\ Errors[1] = case.error
                            /\ program[1].Expression = Nil

\* a hash literal of two pairs with a string key has been parsed
C11_Witness ==
    /\ Done
    /\ Errors = <<>>
    /\ Len(program) = 1
    /\ program[1].kind = "ExpressionStatement"
    /\ program[1].Expression.kind = "HashLiteral"
    /\ Len(program[1].Expression.Pairs) = 2
    /\ program[1].Expression.Pairs[1].key.kind = "StringLiteral"

\* the inputs of C12 with the programs and first diagnostics the claim
\* gives them
C12_Cases ==
    LET a == OperandNode(<<"a">>)
        b == OperandNode(<<"b">>)
        c == OperandNode(<<"c">>)
        lbracket == Token("LBRACKET", <<"[">>)
    IN  {[text |-> Text(IndexOf(index, <<"]">>)), errors |-> <<>>,
          program |-> OneExpression(a.Token,
                          IndexExpression(lbracket, a, ElementNode(index)))] :
            index \in IndexWords}
        \cup
        {[text |-> Text(IndexOf(index, tail)),
          errors |-> <<PeekErrorMessage("RBRACKET", TailType(tail))>>,
          program |-> OneExpression(a.Token, Nil)] :
            index \in IndexWords, tail \in MissingTails("]")}
        \cup
        {[text |-> Text(IndexAfterInfix(op)), errors |-> <<>>,
          program |-> OneExpression(a.Token,
                          Infix(a, Lex(op), IndexExpression(lbracket, b, c)))] :
            op \in InfixWords}
        \cup
        {[text |-> Text(IndexAfterPrefix(pre)), errors |-> <<>>,
          program |-> OneExpression(OperatorToken(Lex(pre)),
                          Prefix(Lex(pre), IndexExpression(lbracket, a, c)))] :
            pre \in PrefixWords}

(* C12: "x[e]" is Index(x, e) with e parsed at LOWEST, and the ] is        *)
(* required: without it "expected next token to be RBRACKET" is recorded   *)
(* and the expression is nil; the [ binds tighter than every operator:     *)
(* "a op b[c]" is Infix(op, a, Index(b, c)) and "-a[c]" is                 *)
(* Prefix(-, Index(a, c)).                                                 *)
C12_IndexExpression ==
    Done => \A case \in C12_Cases :
                Input = case.text =>
                    /\ Len(Errors) >= Len(case.errors)
                    /\ SubSeq(Errors, 1, Len(case.errors)) = case.errors
                    /\ case.errors = <<>> => Errors = <<>>
                    /\ Len(program) >= 1
                    /\ program[1] = case.program[1]
                    /\ case.errors = <<>> => Len(program) = 1

\* "a [ 1 + 1 ]" has been parsed, and "a * b [ c ]" has
C12_Witness ==
    /\ Done
    /\ Errors = <<>>
    /\ \/ /\ Input = Text(<<"a", "[", "1", "+", "1", "]">>)
          /\ program[1].Expression.Index.kind = "InfixExpression"
       \/ /\ Input = Text(IndexAfterInfix("*"))
          /\ program[1].Expression.Right.kind = "IndexExpression"

\* a node, at any depth, one of whose required children named by C13 is
\* absent
RECURSIVE HasAbsentChild(_)
HasAbsentChild(node) ==
    LET Within(nodes) == \E i \in 1..Len(nodes) : HasAbsentChild(nodes[i])
        Missing(nodes) ==
            \E i \in 1..Len(nodes) : nodes[i] = Nil \/ HasAbsentChild(nodes[i])
    IN  CASE node.kind = "list" -> Within(node.elems)
          [] node.kind = "LetStatement" -> Within(<<node.Name>>) \/ Missing(<<node.Value>>)
          [] node.kind = "ReturnStatement" -> Missing(<<node.ReturnValue>>)
          [] node.kind = "ExpressionStatement" -> Missing(<<node.Expression>>)
          [] node.kind = "BlockStatement" -> Within(node.Statements)
          [] node.kind = "PrefixExpression" -> Missing(<<node.Right>>)
          [] node.kind = "InfixExpression" -> Missing(<<node.Left, node.Right>>)
          [] node.kind = "IfExpression" ->
               Within(<<node.Condition, node.Consequence, node.Alternative>>)
          [] node.kind = "FunctionLiteral" -> Within(<<node.Parameters, node.Body>>)
          [] node.kind = "CallExpression" ->
               Within(<<node.Function>>) \/ Missing(<<node.Arguments>>)
          [] node.kind = "ArrayLiteral" -> Within(<<node.Elements>>)
          [] node.kind = "IndexExpression" -> Within(<<node.Left, node.Index>>)
          [] node.kind = "HashLiteral" ->
               \E i \in 1..Len(node.Pairs) :
                   Within(<<node.Pairs[i].key, node.Pairs[i].value>>)
          [] OTHER -> FALSE

(* C13: absence propagates outward: the program never holds a node with an *)
(* absent required child (PrefixExpression.Right, InfixExpression.Left or  *)
(* Right, CallExpression.Arguments, ExpressionStatement.Expression,        *)
(* LetStatement.Value, ReturnStatement.ReturnValue), whether or not        *)
(* diagnostics were recorded.                                              *)
C13_AbsencePropagates ==
    \A i \in 1..Len(program) : ~HasAbsentChild(program[i])

\* the token kinds the lexer produces
TokenTypes ==
    {"ILLEGAL", "EOF", "IDENT", "INT", "STRING", "ASSIGN", "PLUS", "MINUS", "BANG",
     "ASTERISK", "SLASH", "LT", "GT", "EQ", "NOT_EQ", "COMMA", "SEMICOLON", "COLON",
     "LPAREN", "RPAREN", "LBRACE", "RBRACE", "LBRACKET", "RBRACKET", "FUNCTION",
     "LET", "TRUE", "FALSE", "IF", "ELSE", "RETURN"}

(* C14: expectPeek(kind), at every parser state ParseProgram passes and    *)
(* for every kind: when the peek token has that kind, current becomes the  *)
(* old peek, exactly one token is pulled from the lexer, the diagnostics   *)
(* stay as they are and the result is true; otherwise current, peek and    *)
(* the lexer stay as they are, exactly one diagnostic "expected next token *)
(* to be <kind>, got <peek kind> instead" is appended and the result is    *)
(* false.                                                                  *)
C14_ExpectPeekFrame ==
    \A kind \in TokenTypes :
        LET e == expectPeek(parser, kind)
            pulled == NextToken(parser.l)
        IN  IF parser.peekToken.Type = kind
            THEN /\ e.ok
                 /\ e.p.currToken = parser.peekToken
                 /\ e.p.peekToken = pulled.tok
                 /\ e.p.l = pulled.l
                 /\ e.p.errors = parser.errors
            ELSE /\ ~e.ok
                 /\ e.p.currToken = parser.currToken
                 /\ e.p.peekToken = parser.peekToken
                 /\ e.p.l = parser.l
                 /\ e.p.errors =
                        Append(parser.errors,
                               <<"expected next token to be ", kind, ", got ",
                                 parser.peekToken.Type, " instead">>)

\* a state after an earlier failure where expectPeek succeeds for = and
\* fails for the other kinds
C14_Witness ==
    /\ pc = "loop"
    /\ Len(Errors) = 1
    /\ peekTokenIs(parser, "ASSIGN")
    /\ expectPeek(parser, "ASSIGN").ok
    /\ ~expectPeek(parser, "IDENT").ok

\* the decimal value of a digit string is at most 1<<63 - 1
DecimalFits(digits) ==
    LET d == StripZeros(digits)
    IN  \/ Len(d) < Len(MaxInt64Digits)
        \/ Len(d) = Len(MaxInt64Digits) /\ ~DigitsGreater(d, MaxInt64Digits)

(* C15: parseIntegerLiteral fails exactly on overflow: a digit string,     *)
(* leading zeros or not, whose decimal value is at most 2^63 - 1 yields    *)
(* the IntegerLiteral of that decimal value and records nothing; one past  *)
(* the range records exactly one conversion diagnostic and yields nil.     *)
C15_IntegerLiteral ==
    Done => \A digits \in IntegerLexemes :
                Input = digits =>
                    IF DecimalFits(digits)
                    THEN /\ Errors = <<>>
                         /\ program =
                                OneExpression(Token("INT", digits),
                                    IntegerLiteral(Token("INT", digits),
                                                   DigitsValue(StripZeros(digits), 10)))
                    ELSE /\ Errors = <<IntegerMessage(digits)>>
                         /\ program = OneExpression(Token("INT", digits), Nil)

\* the inputs of C16
C16_Cases ==
    {Text(FailedLetThenStatement(x, v)) : x \in {"a", "b"}, v \in {"a", "b", "5"}}

(* C16: after "let x v;" has failed with its diagnostic, ParseProgram      *)
(* resumes after the ; : the rest of the failed statement is not parsed as *)
(* a statement of its own and causes no further diagnostic, so the one     *)
(* statement parsed is the "b;" that follows.  (An entry the failed let    *)
(* itself leaves in the program is C6's matter and is left out here.)      *)
C16_ResumesAtBoundary ==
    Done /\ Input \in C16_Cases =>
        /\ Len(Errors) = 1
        /\ SelectSeq(program, LAMBDA st : st # NilLetStatement) =
               OneExpression(Token("IDENT", <<"b">>), OperandNode(<<"b">>))

\* the statement a block statement is written for
BlockStatementNode(words) ==
    LET a == OperandNode(<<"a">>)
        b == OperandNode(<<"b">>)
    IN  CASE words = <<"b">> -> ExpressionStatement(b.Token, b)
          [] words = <<"a", ";">> -> ExpressionStatement(a.Token, a)
          [] words = <<"let", "b", "=", "5", ";">> ->
               LetStatement(Token("LET", KwLet), b, OperandNode(<<"5">>))
          [] words = <<"return", "a", ";">> ->
               ReturnStatement(Token("RETURN", KwReturn), a)

BlockNode(run) ==
    BlockStatement(Token("LBRACE", <<"{">>),
                   [i \in 1..Len(run) |-> BlockStatementNode(run[i])])

\* the inputs of C18 with the programs the claim gives them
C18_Cases ==
    LET a == OperandNode(<<"a">>)
        if == Token("IF", KwIf)
        fn == Token("FUNCTION", KwFn)
    IN  {[text |-> Text(IfBlock(run, tail)),
          program |-> OneExpression(if, IfExpression(if, a, BlockNode(run), Nil))] :
            run \in BlockRuns, tail \in BlockTails}
        \cup
        {[text |-> Text(FunctionBlock(run, tail)),
          program |-> OneExpression(fn,
                          FunctionLiteral(fn, List(<<a>>), BlockNode(run)))] :
            run \in BlockRuns, tail \in BlockTails}

(* C18: parseBlockStatement collects the statements in source order until  *)
(* the current token is } or the end of input; a block the input ends in   *)
(* is returned with the statements parsed so far and records nothing, so   *)
(* "if (a) { ..." and "fn(a) { ..." with no closing } parse to the same    *)
(* program as with it, with no diagnostics.                                *)
C18_BlockStatement ==
    Done => \A case \in C18_Cases :
                Input = case.text => Errors = <<>> /\ program = case.program

\* "if ( a ) { b" has been parsed, the input ending inside the block
C18_Witness ==
    /\ Done
    /\ Input = Text(IfBlock(<< <<"b">> >>, <<>>))
    /\ Errors = <<>>
    /\ Len(program[1].Expression.Consequence.Statements) = 1

(* C17: the parser of src/unnamed/part_000 terminates on every input: the  *)
(* loops of its parseLetStatement and parseReturnStatement exit once the   *)
(* cursor is on the end-of-input token, so a skipping loop standing on EOF *)
(* takes no further iteration.                                             *)
C17_SkipLoopExitsAtEOF ==
    [][pc = "skip" /\ currTokenIs(parser, "EOF") => pc' # "skip"]_vars

=============================================================================
